---------------------------- MODULE Spec2Model ----------------------------
(***************************************************************************)
(* A model of the expression engine of src/Calculator.py: the buffer       *)
(* `expression`, the display variable `equation`, and the operations       *)
(* _press, _handle_backspace, _clear, _calculate, _toggle_sign and         *)
(* _percentage, together with the functions they call                      *)
(* (_validate_expression, _safe_eval, _format_result and the builtins      *)
(* eval, float, round, int and str on the inputs the engine gives them).   *)
(*                                                                         *)
(* A Python string is a sequence of characters; a character is a string    *)
(* that names it.  An ASCII character names itself; the characters that    *)
(* are not ASCII are named by their code point.                            *)
(***************************************************************************)
EXTENDS Integers, Sequences, FiniteSets, TLC

\* OperatorType.MULTIPLY and OperatorType.DIVIDE: the display glyphs.
MULTIPLY == "U+00D7"
DIVIDE == "U+00F7"
\* ARABIC-INDIC DIGIT THREE: a decimal digit (category Nd) that is not ASCII.
ARABIC_THREE == "U+0663"
NEWLINE == "\n"

MAX_EXPRESSION_LENGTH == 20

(***************************************************************************)
(* Bounds of the exploration.  The first MaxFree characters of the buffer  *)
(* are drawn from Tokens; PadTokens may be appended at any length, so that *)
(* the buffer can be filled to MAX_EXPRESSION_LENGTH and beyond.  The      *)
(* specification SpecText starts from any text of at most TextLen          *)
(* characters of TextChars, and SpecNumber from any text of at most        *)
(* NumberLen characters of NumberChars.                                    *)
(***************************************************************************)
MaxFree == 3
TextLen == 3
NumberLen == 6

Tokens == {"0", "3", "5", "+", "(", "%", DIVIDE}
PadTokens == {"."}
NumberChars == {"0", "5", ".", "e"}
TextChars == {"5", "+", MULTIPLY, " ", NEWLINE, "a", "&", ARABIC_THREE, "("}

VARIABLES
    expression,  \* self.expression: the buffer
    equation,    \* self.equation: the StringVar the display shows
    op,          \* the operation called last, with its argument
    raised       \* the exception the last operation raised, or NoError

vars == <<expression, equation, op, raised>>

-----------------------------------------------------------------------------
(* Exceptions.  `cause` is the class of __cause__ (raise ... from e).      *)

NoError == [type |-> "None", msg |-> "", cause |-> "None"]

CalculatorError(msg, cause) ==
    [type |-> "CalculatorError", msg |-> msg, cause |-> cause]

\* An exception of another class that leaves the operation as it is.
Uncaught(type) == [type |-> type, msg |-> "", cause |-> "None"]

Outcome(expr, eqn, exc) ==
    [expression |-> expr, equation |-> eqn, raised |-> exc]

-----------------------------------------------------------------------------
(* Strings.                                                                *)

AsciiDigits == {"0", "1", "2", "3", "4", "5", "6", "7", "8", "9"}

DigitValue(c) ==
    CASE c = "0" -> 0 [] c = "1" -> 1 [] c = "2" -> 2 [] c = "3" -> 3
      [] c = "4" -> 4 [] c = "5" -> 5 [] c = "6" -> 6 [] c = "7" -> 7
      [] c = "8" -> 8 [] c = "9" -> 9 [] c = ARABIC_THREE -> 3

DigitChar(d) ==
    CASE d = 0 -> "0" [] d = 1 -> "1" [] d = 2 -> "2" [] d = 3 -> "3"
      [] d = 4 -> "4" [] d = 5 -> "5" [] d = 6 -> "6" [] d = 7 -> "7"
      [] d = 8 -> "8" [] d = 9 -> "9"

\* s[from:] of Python, with `from` counted from 1.
Drop(s, n) == SubSeq(s, n + 1, Len(s))
Take(s, n) == SubSeq(s, 1, n)

\* str.replace(old, new) for single characters.
Replace(s, old, new) == [i \in 1..Len(s) |-> IF s[i] = old THEN new ELSE s[i]]

\* _calculate, line 308: the display glyphs become Python's operators.
Normalize(s) == Replace(Replace(s, DIVIDE, "/"), MULTIPLY, "*")

-----------------------------------------------------------------------------
(* _validate_expression: re.match(r'^[\d+\-*/.() ]+$', expression).        *)

\* \d of a str pattern: every character of category Nd.
IsDigitClass(c) == c \in AsciiDigits \cup {ARABIC_THREE}

InCharClass(c) ==
    IsDigitClass(c) \/ c \in {"+", "-", "*", "/", ".", "(", ")", " "}

\* [...]+ takes k >= 1 characters of the class; $ matches at the end of
\* the string and also just before a newline that ends the string.
_validate_expression(s) ==
    \E k \in 1..Len(s) :
        /\ \A i \in 1..k : InCharClass(s[i])
        /\ \/ k = Len(s)
           \/ k = Len(s) - 1 /\ s[Len(s)] = NEWLINE

-----------------------------------------------------------------------------
(***************************************************************************)
(* Numbers.  A Python number is modelled by its exact value.  A literal    *)
(* keeps its digits (form "dec": sgn * digs * 10^e); a computed value is a *)
(* fraction in lowest terms (form "rat": n / d).  `int` tells a Python int *)
(* from a Python float.  A float stands for the double nearest to it: on   *)
(* the values the model formats (at most DBL_DIG digits before the point,  *)
(* fractions with denominators below 10^5 or few digits) the two round to  *)
(* the same ten decimals, except at an exact tie of the rounding, where    *)
(* the model keeps both neighbours.  A literal beyond the range of a       *)
(* double is the float inf.                                                *)
(***************************************************************************)

\* sys.float_info: a double holds every decimal of DBL_DIG digits, and no
\* power of ten above 10^DBL_MAX_10_EXP.
DBL_DIG == 15
DBL_MAX_10_EXP == 308

Dec(isint, sgn, digs, e) ==
    [f |-> "dec", int |-> isint, sgn |-> sgn, digs |-> digs, e |-> e,
     n |-> 0, d |-> 1]

RECURSIVE Gcd(_, _)
Gcd(a, b) == IF b = 0 THEN a ELSE Gcd(b, a % b)

Abs(x) == IF x < 0 THEN -x ELSE x

Rat(isint, n, d) ==
    LET g == Gcd(Abs(n), d)
    IN  [f |-> "rat", int |-> isint, sgn |-> 1, digs |-> <<>>, e |-> 0,
         n |-> n \div g, d |-> d \div g]

RECURSIVE Pow(_, _)
Pow(b, k) == IF k = 0 THEN 1 ELSE b * Pow(b, k - 1)

RECURSIVE DigitsToNat(_)
DigitsToNat(ds) ==
    IF ds = <<>> THEN 0
    ELSE 10 * DigitsToNat(Take(ds, Len(ds) - 1)) + ds[Len(ds)]

RECURSIVE NatDigits(_)
NatDigits(n) == IF n < 10 THEN <<n>> ELSE Append(NatDigits(n \div 10), n % 10)

Zeros(k) == [i \in 1..k |-> 0]

AllZero(ds) == \A i \in 1..Len(ds) : ds[i] = 0

RECURSIVE StripLeadingZeros(_)
StripLeadingZeros(ds) ==
    IF Len(ds) > 1 /\ ds[1] = 0 THEN StripLeadingZeros(Tail(ds)) ELSE ds

RECURSIVE StripTrailingZeros(_)
StripTrailingZeros(ds) ==
    IF ds # <<>> /\ ds[Len(ds)] = 0
    THEN StripTrailingZeros(Take(ds, Len(ds) - 1))
    ELSE ds

\* float('inf'), as float() returns it for a literal out of range.
Infinity == [f |-> "inf", int |-> FALSE, sgn |-> 1, digs |-> <<>>, e |-> 0,
             n |-> 0, d |-> 1]

\* The place of the first digit of a literal that is not zero: the value
\* is at least 10^(Magnitude - 1) and below 10^Magnitude.
Magnitude(v) == Len(StripLeadingZeros(v.digs)) + v.e

\* The exact value of v as a fraction in lowest terms.
ToRat(v) ==
    IF v.f = "rat" THEN v
    ELSE LET m == v.sgn * DigitsToNat(v.digs)
         IN  IF v.e >= 0 THEN Rat(v.int, m * Pow(10, v.e), 1)
             ELSE Rat(v.int, m, Pow(10, -v.e))

IsZero(v) == IF v.f = "rat" THEN v.n = 0 ELSE AllZero(v.digs)

IsNegative(v) ==
    IF v.f = "rat" THEN v.n < 0 ELSE v.sgn < 0 /\ ~AllZero(v.digs)

\* float(x) of a number: an int becomes a float of the same value.
ToFloat(v) == [v EXCEPT !.int = FALSE]

Negate(v) ==
    IF v.f = "rat" THEN [v EXCEPT !.n = -v.n] ELSE [v EXCEPT !.sgn = -v.sgn]

\* k digits of r / d after the point, and what is left (r < d).
RECURSIVE LongDivision(_, _, _)
LongDivision(r, d, k) ==
    IF k = 0 THEN [digs |-> <<>>, rest |-> r]
    ELSE LET next == LongDivision((r * 10) % d, d, k - 1)
         IN  [digs |-> <<(r * 10) \div d>> \o next.digs, rest |-> next.rest]

(***************************************************************************)
(* The decimal expansion of v: the sign, the digits before the point, the  *)
(* first eleven digits after it, and whether a nonzero digit follows.      *)
(***************************************************************************)
Expansion(v) ==
    IF v.f = "rat" THEN
        LET q == Abs(v.n) \div v.d
            ld == LongDivision(Abs(v.n) % v.d, v.d, 11)
        IN  [neg |-> v.n < 0, ip |-> NatDigits(q), fr |-> ld.digs,
             sticky |-> ld.rest # 0]
    ELSE IF AllZero(v.digs) THEN
        [neg |-> v.sgn < 0, ip |-> <<0>>, fr |-> Zeros(11), sticky |-> FALSE]
    ELSE IF v.e >= 0 THEN
        [neg |-> v.sgn < 0, ip |-> StripLeadingZeros(v.digs \o Zeros(v.e)),
         fr |-> Zeros(11), sticky |-> FALSE]
    ELSE IF -v.e > Len(v.digs) + 11 THEN
        [neg |-> v.sgn < 0, ip |-> <<0>>, fr |-> Zeros(11),
         sticky |-> ~AllZero(v.digs)]
    ELSE
        LET k == -v.e
            all == IF Len(v.digs) > k THEN v.digs
                   ELSE Zeros(k + 1 - Len(v.digs)) \o v.digs
            frac == Drop(all, Len(all) - k)
        IN  [neg |-> v.sgn < 0,
             ip |-> StripLeadingZeros(Take(all, Len(all) - k)),
             fr |-> Take(frac \o Zeros(11), 11),
             sticky |-> ~AllZero(Drop(frac \o Zeros(11), 11))]

\* ds + 1, as digits (one digit longer when every digit is 9).
RECURSIVE Increment(_)
Increment(ds) ==
    IF ds = <<>> THEN <<1>>
    ELSE IF ds[Len(ds)] < 9 THEN [ds EXCEPT ![Len(ds)] = @ + 1]
    ELSE Append(Increment(Take(ds, Len(ds) - 1)), 0)

(***************************************************************************)
(* round(result, 10): the expansion cut to ten decimals, rounded to the    *)
(* nearest.  At an exact tie the double the float stands for lies on       *)
(* either side, and both results are kept.                                 *)
(***************************************************************************)
Round10(x) ==
    LET down == x.ip \o Take(x.fr, 10)
        up == Increment(down)
        split(ds) == [neg |-> x.neg,
                      ip |-> Take(ds, Len(ds) - 10),
                      fr |-> Drop(ds, Len(ds) - 10)]
        g == x.fr[11]
    IN  IF g < 5 THEN {split(down)}
        ELSE IF g > 5 \/ x.sticky THEN {split(up)}
        ELSE {split(down), split(up)}

DigitChars(ds) == [i \in 1..Len(ds) |-> DigitChar(ds[i])]

FirstNonZero(ds) == CHOOSE i \in 1..Len(ds) :
                        ds[i] # 0 /\ \A j \in 1..(i - 1) : ds[j] = 0

(***************************************************************************)
(* str(int(rounded)) when rounded == int(rounded), str(rounded) otherwise, *)
(* lines 379-382, on the rounded value r.  repr of a float writes a value  *)
(* below 1e-04 with an exponent.                                           *)
(***************************************************************************)
StrOfRounded(r) ==
    LET sign == IF r.neg THEN <<"-">> ELSE <<>>
        frs == StripTrailingZeros(r.fr)
    IN  IF AllZero(r.fr) THEN
            IF AllZero(r.ip) THEN <<"0">> ELSE sign \o DigitChars(r.ip)
        ELSE IF ~AllZero(r.ip) \/ ~AllZero(Take(r.fr, 4)) THEN
            sign \o DigitChars(r.ip) \o <<".">> \o DigitChars(frs)
        ELSE
            LET p == FirstNonZero(r.fr)
                mant == Drop(frs, p - 1)
            IN  sign \o <<DigitChar(mant[1])>>
                \o (IF Len(mant) > 1
                    THEN <<".">> \o DigitChars(Tail(mant)) ELSE <<>>)
                \o <<"e", "-">> \o DigitChars(<<p \div 10, p % 10>>)

Returned(s) == [raised |-> NoError, str |-> s]
Raised(exc) == [raised |-> exc, str |-> <<>>]

(***************************************************************************)
(* _format_result(result), lines 376-382: every string the call may        *)
(* return, or the exception it raises.  round(inf, 10) is inf, and         *)
(* int(inf) raises OverflowError.  A float of more than DBL_DIG digits     *)
(* before the point is printed with the digits of the double, which this   *)
(* model does not compute.                                                 *)
(***************************************************************************)
_format_result(v) ==
    IF v.f = "inf" THEN {Raised(Uncaught("OverflowError"))}
    ELSE IF v.f = "dec" /\ ~AllZero(v.digs) /\ Magnitude(v) > DBL_DIG
    THEN {Raised(Uncaught("Unmodelled"))}
    ELSE {Returned(StrOfRounded(r)) : r \in Round10(Expansion(v))}

-----------------------------------------------------------------------------
(***************************************************************************)
(* float(s) of a string, as _percentage calls it: white space is stripped, *)
(* then an optional sign, a mantissa with at least one digit and at most   *)
(* one point, and an optional exponent.  Any decimal digit counts.  A      *)
(* literal of 10^(DBL_MAX_10_EXP + 1) or more is inf.  The words inf and   *)
(* nan, and the underscore, need characters no specification of this       *)
(* module draws.                                                           *)
(***************************************************************************)

IsSpace(c) == c \in {" ", NEWLINE}

RECURSIVE Strip(_)
Strip(s) ==
    IF s = <<>> THEN s
    ELSE IF IsSpace(s[1]) THEN Strip(Tail(s))
    ELSE IF IsSpace(s[Len(s)]) THEN Strip(Take(s, Len(s) - 1))
    ELSE s

\* How many characters of s, from position i on, are decimal digits.
RECURSIVE DigitRun(_, _)
DigitRun(s, i) ==
    IF i <= Len(s) /\ IsDigitClass(s[i]) THEN 1 + DigitRun(s, i + 1) ELSE 0

DigitsAt(s, i, k) == [j \in 1..k |-> DigitValue(s[i + j - 1])]

PyFloat(s) ==
    LET t == Strip(s)
        len == Len(t)
        signed == len >= 1 /\ t[1] \in {"+", "-"}
        i0 == IF signed THEN 2 ELSE 1
        ni == DigitRun(t, i0)
        dot == i0 + ni <= len /\ t[i0 + ni] = "."
        nf == IF dot THEN DigitRun(t, i0 + ni + 1) ELSE 0
        m == i0 + ni + (IF dot THEN 1 + nf ELSE 0)
        exp == m <= len /\ t[m] \in {"e", "E"}
        esigned == exp /\ m + 1 <= len /\ t[m + 1] \in {"+", "-"}
        e0 == m + 1 + (IF esigned THEN 1 ELSE 0)
        ne == IF exp THEN DigitRun(t, e0) ELSE 0
        end == IF exp THEN e0 + ne ELSE m
        ok == ni + nf >= 1 /\ (exp => ne >= 1) /\ end = len + 1
        ev == IF exp
              THEN (IF esigned /\ t[m + 1] = "-" THEN -1 ELSE 1)
                   * DigitsToNat(DigitsAt(t, e0, ne))
              ELSE 0
        lit == Dec(FALSE, IF signed /\ t[1] = "-" THEN -1 ELSE 1,
                   DigitsAt(t, i0, ni) \o DigitsAt(t, i0 + ni + 1, nf),
                   ev - nf)
    IN  IF ~ok THEN [ok |-> FALSE, v |-> Dec(FALSE, 1, <<0>>, 0)]
        ELSE IF ~AllZero(lit.digs) /\ Magnitude(lit) > DBL_MAX_10_EXP + 1
        THEN [ok |-> TRUE, v |-> Infinity]
        ELSE [ok |-> TRUE, v |-> lit]

\* float(self.expression) / 100
DivideBy100(v) == IF v.f = "inf" THEN v ELSE [v EXCEPT !.e = @ - 2]

-----------------------------------------------------------------------------
(***************************************************************************)
(* eval(expression, {"__builtins__": {}}, {}), line 357, on the strings    *)
(* that pass _validate_expression: Python's tokens, Python's expression    *)
(* grammar, and Python's arithmetic.  Besides + - * / and parentheses the  *)
(* character class lets through ** (power), // (floor division), unary     *)
(* plus, the empty tuple (), the Ellipsis literal ... and the call syntax  *)
(* f(x), also with a starred argument.                                     *)
(***************************************************************************)

NoValue == Rat(TRUE, 0, 1)

\* The values of eval here that are not numbers: () and Ellipsis.
EmptyTuple == [NoValue EXCEPT !.f = "tuple"]
Ellipsis == [NoValue EXCEPT !.f = "ellipsis"]

NumTok(v) == [t |-> "num", s |-> "", v |-> v]
OpTok(o) == [t |-> "op", s |-> o, v |-> NoValue]
\* A newline outside parentheses: it ends the expression.
NlTok == [t |-> "nl", s |-> "", v |-> NoValue]
\* A character or literal the tokenizer refuses (SyntaxError).
BadTok == [t |-> "bad", s |-> "", v |-> NoValue]

(***************************************************************************)
(* A decimal integer literal of several digits may not start with 0,       *)
(* unless every digit is 0 ("leading zeros in decimal integer literals     *)
(* are not permitted"); a literal with a point may.                        *)
(***************************************************************************)
NumberToken(s, i, ni, dot, nf) ==
    LET ints == DigitsAt(s, i, ni)
        fracs == IF dot THEN DigitsAt(s, i + ni + 1, nf) ELSE <<>>
    IN  IF ~dot /\ ni > 1 /\ ints[1] = 0 /\ ~AllZero(ints) THEN BadTok
        ELSE NumTok(Dec(~dot, 1, ints \o fracs, -nf))

\* How many characters of s, from position i on, are ASCII digits.
RECURSIVE AsciiDigitRun(_, _)
AsciiDigitRun(s, i) ==
    IF i <= Len(s) /\ s[i] \in AsciiDigits THEN 1 + AsciiDigitRun(s, i + 1)
    ELSE 0

RECURSIVE Tokenize(_, _, _)
Tokenize(s, i, depth) ==
    IF i > Len(s) THEN <<>>
    ELSE LET c == s[i] IN
      IF c = " " THEN Tokenize(s, i + 1, depth)
      ELSE IF c = NEWLINE THEN
          IF depth > 0 THEN Tokenize(s, i + 1, depth)
          ELSE <<NlTok>> \o Tokenize(s, i + 1, depth)
      ELSE IF c \in AsciiDigits \/
              (c = "." /\ i < Len(s) /\ s[i + 1] \in AsciiDigits) THEN
          LET ni == AsciiDigitRun(s, i)
              dot == i + ni <= Len(s) /\ s[i + ni] = "."
              nf == IF dot THEN AsciiDigitRun(s, i + ni + 1) ELSE 0
              next == i + ni + (IF dot THEN 1 + nf ELSE 0)
          IN  <<NumberToken(s, i, ni, dot, nf)>> \o Tokenize(s, next, depth)
      ELSE IF c = "." /\ i + 2 <= Len(s) /\ s[i + 1] = "." /\ s[i + 2] = "." THEN
          <<OpTok("...")>> \o Tokenize(s, i + 3, depth)
      ELSE IF c \in {"*", "/"} /\ i < Len(s) /\ s[i + 1] = c THEN
          <<OpTok(IF c = "*" THEN "**" ELSE "//")>> \o Tokenize(s, i + 2, depth)
      ELSE IF c \in {"+", "-", "*", "/"} THEN
          <<OpTok(c)>> \o Tokenize(s, i + 1, depth)
      ELSE IF c = "(" THEN <<OpTok(c)>> \o Tokenize(s, i + 1, depth + 1)
      ELSE IF c = ")" THEN
          <<OpTok(c)>> \o Tokenize(s, i + 1, IF depth > 0 THEN depth - 1 ELSE 0)
      ELSE <<BadTok>> \o Tokenize(s, i + 1, depth)

(***************************************************************************)
(* The grammar, as a recursive descent over the tokens:                    *)
(*   sum:     term (('+' | '-') term)*                                     *)
(*   term:    factor (('*' | '/' | '//') factor)*                          *)
(*   factor:  ('+' | '-') factor | power                                   *)
(*   power:   primary ['**' factor]                                        *)
(*   primary: atom ('(' [['*' | '**'] sum] ')')*                           *)
(*   atom:    NUMBER | '...' | '(' [sum] ')'                               *)
(* Parse(rule, ts, at) parses `rule` from position at.i and returns the    *)
(* tree and the position after it, or fails.  The rules "sum_rest",        *)
(* "term_rest" and "trailers" continue the tree at.node, which ends before *)
(* at.i, with the repeated part of their rule.                             *)
(***************************************************************************)
NoParse == [ok |-> FALSE, node |-> [t |-> "none"], i |-> 0]
Parsed(node, i) == [ok |-> TRUE, node |-> node, i |-> i]
At(i) == Parsed([t |-> "none"], i)

IsOp(ts, i, ops) == i <= Len(ts) /\ ts[i].t = "op" /\ ts[i].s \in ops

BinNode(o, a, b) == [t |-> "bin", o |-> o, a |-> a, b |-> b]
CallNode(a, args) == [t |-> "call", a |-> a, args |-> args]

RECURSIVE Parse(_, _, _)
Parse(rule, ts, at) ==
    LET i == at.i IN
    CASE rule = "atom" ->
            IF i > Len(ts) THEN NoParse
            ELSE IF ts[i].t = "num" THEN Parsed([t |-> "num", v |-> ts[i].v], i + 1)
            ELSE IF IsOp(ts, i, {"..."}) THEN Parsed([t |-> "ellipsis"], i + 1)
            ELSE IF ~IsOp(ts, i, {"("}) THEN NoParse
            ELSE IF IsOp(ts, i + 1, {")"}) THEN Parsed([t |-> "tuple"], i + 2)
            ELSE LET e == Parse("sum", ts, At(i + 1))
                 IN  IF e.ok /\ IsOp(ts, e.i, {")"}) THEN Parsed(e.node, e.i + 1)
                     ELSE NoParse
      [] rule = "trailers" ->
            IF ~IsOp(ts, i, {"("}) THEN at
            ELSE LET e == IF IsOp(ts, i + 1, {")"}) THEN At(i + 1)
                          ELSE IF IsOp(ts, i + 1, {"*", "**"})
                          THEN Parse("sum", ts, At(i + 2))
                          ELSE Parse("sum", ts, At(i + 1))
                     args == IF e.i = i + 1 THEN <<>> ELSE <<e.node>>
                 IN  IF e.ok /\ IsOp(ts, e.i, {")"})
                     THEN Parse("trailers", ts,
                                Parsed(CallNode(at.node, args), e.i + 1))
                     ELSE NoParse
      [] rule = "power" ->
            LET a == Parse("atom", ts, at)
                q == IF a.ok THEN Parse("trailers", ts, a) ELSE NoParse
                f == IF q.ok /\ IsOp(ts, q.i, {"**"})
                     THEN Parse("factor", ts, At(q.i + 1)) ELSE NoParse
            IN  IF ~(q.ok /\ IsOp(ts, q.i, {"**"})) THEN q
                ELSE IF f.ok THEN Parsed(BinNode("**", q.node, f.node), f.i)
                ELSE NoParse
      [] rule = "factor" ->
            LET f == IF IsOp(ts, i, {"+", "-"})
                     THEN Parse("factor", ts, At(i + 1))
                     ELSE Parse("power", ts, at)
            IN  IF IsOp(ts, i, {"+", "-"}) /\ f.ok
                THEN Parsed([t |-> "unary", o |-> ts[i].s, a |-> f.node], f.i)
                ELSE f
      [] rule \in {"term", "sum"} ->
            LET first == Parse(IF rule = "term" THEN "factor" ELSE "term", ts, at)
            IN  IF first.ok
                THEN Parse(IF rule = "term" THEN "term_rest" ELSE "sum_rest",
                           ts, first)
                ELSE NoParse
      [] rule \in {"term_rest", "sum_rest"} ->
            LET ops == IF rule = "term_rest" THEN {"*", "/", "//"} ELSE {"+", "-"}
                r == IF IsOp(ts, i, ops)
                     THEN Parse(IF rule = "term_rest" THEN "factor" ELSE "term",
                                ts, At(i + 1))
                     ELSE NoParse
            IN  IF ~IsOp(ts, i, ops) THEN at
                ELSE IF r.ok
                THEN Parse(rule, ts, Parsed(BinNode(ts[i].s, at.node, r.node), r.i))
                ELSE NoParse

\* eval's input: one expression, then nothing but newlines.
ParseExpression(s) ==
    LET ts == Tokenize(s, 1, 0)
        lead == CHOOSE k \in 0..Len(ts) :
                    /\ \A j \in 1..k : ts[j].t = "nl"
                    /\ (k = Len(ts) \/ ts[k + 1].t # "nl")
        e == Parse("sum", ts, At(lead + 1))
    IN  IF e.ok /\ \A j \in e.i..Len(ts) : ts[j].t = "nl" THEN e ELSE NoParse

-----------------------------------------------------------------------------
(***************************************************************************)
(* Evaluation of a tree.  The result is a value, or the class of the       *)
(* exception Python raises.  "Unmodelled" marks the results this model     *)
(* does not compute: a power with a fractional exponent or beyond          *)
(* PowerLimit, and a floor division of floats whose operands the doubles   *)
(* do not hold exactly while the exact quotient is whole.                  *)
(***************************************************************************)
PowerLimit == 8

Value(v) == [err |-> "None", v |-> v]
Raise(class) == [err |-> class, v |-> NoValue]

IsTuple(v) == v.f = "tuple"
IsNumber(v) == v.f \in {"dec", "rat"}

RECURSIVE IsPowerOfTwo(_)
IsPowerOfTwo(n) == n = 1 \/ (n > 1 /\ n % 2 = 0 /\ IsPowerOfTwo(n \div 2))

Add(x, y) ==
    LET a == ToRat(x) b == ToRat(y)
    IN  Rat(x.int /\ y.int, a.n * b.d + b.n * a.d, a.d * b.d)

Sub(x, y) == Add(x, Negate(y))

Mul(x, y) ==
    LET a == ToRat(x) b == ToRat(y)
    IN  Rat(x.int /\ y.int, a.n * b.n, a.d * b.d)

TrueDiv(x, y) ==
    LET a == ToRat(x) b == ToRat(y)
    IN  IF b.n = 0 THEN Raise("ZeroDivisionError")
        ELSE Value(Rat(FALSE, (IF b.n < 0 THEN -1 ELSE 1) * a.n * b.d,
                       a.d * Abs(b.n)))

FloorDiv(x, y) ==
    LET a == ToRat(x) b == ToRat(y)
        num == (IF b.n < 0 THEN -1 ELSE 1) * a.n * b.d
        den == a.d * Abs(b.n)
        exact == \/ x.int /\ y.int
                 \/ IsPowerOfTwo(a.d) /\ IsPowerOfTwo(b.d)
                 \/ a.n = 0
    IN  IF b.n = 0 THEN Raise("ZeroDivisionError")
        ELSE IF ~exact /\ num % den = 0 THEN Raise("Unmodelled")
        ELSE Value(Rat(x.int /\ y.int, num \div den, 1))

Power(x, y) ==
    LET a == ToRat(x) b == ToRat(y)
        k == Abs(b.n)
    IN  IF b.d # 1 \/ k > PowerLimit \/ Abs(a.n) > PowerLimit
           \/ a.d > PowerLimit
        THEN Raise("Unmodelled")
        ELSE IF b.n >= 0
        THEN Value(Rat(x.int /\ y.int, Pow(a.n, k), Pow(a.d, k)))
        ELSE IF a.n = 0 THEN Raise("ZeroDivisionError")
        ELSE Value(Rat(FALSE, (IF a.n < 0 /\ k % 2 = 1 THEN -1 ELSE 1)
                              * Pow(a.d, k), Pow(Abs(a.n), k)))

\* The binary operators; of the values that are not numbers only the tuple
\* takes part, in () + () and () * int.
Binary(o, x, y) ==
    IF ~IsNumber(x) \/ ~IsNumber(y) THEN
        IF \/ o = "+" /\ IsTuple(x) /\ IsTuple(y)
           \/ o = "*" /\ IsTuple(x) /\ IsNumber(y) /\ y.int
           \/ o = "*" /\ IsTuple(y) /\ IsNumber(x) /\ x.int
        THEN Value(EmptyTuple)
        ELSE Raise("TypeError")
    ELSE CASE o = "+" -> Value(Add(x, y))
           [] o = "-" -> Value(Sub(x, y))
           [] o = "*" -> Value(Mul(x, y))
           [] o = "/" -> TrueDiv(x, y)
           [] o = "//" -> FloorDiv(x, y)
           [] o = "**" -> Power(x, y)

RECURSIVE Evaluate(_)
Evaluate(node) ==
    CASE node.t = "num" -> Value(node.v)
      [] node.t = "tuple" -> Value(EmptyTuple)
      [] node.t = "ellipsis" -> Value(Ellipsis)
      [] node.t = "unary" ->
            LET a == Evaluate(node.a)
            IN  IF a.err # "None" THEN a
                ELSE IF ~IsNumber(a.v) THEN Raise("TypeError")
                ELSE IF node.o = "-" THEN Value(Negate(a.v))
                ELSE a
      [] node.t = "bin" ->
            LET a == Evaluate(node.a)
            IN  IF a.err # "None" THEN a
                ELSE LET b == Evaluate(node.b)
                     IN  IF b.err # "None" THEN b
                         ELSE Binary(node.o, a.v, b.v)
      \* no value here is callable: the callee and the
      \* argument are evaluated, then the call raises TypeError
      [] node.t = "call" ->
            LET a == Evaluate(node.a)
            IN  IF a.err # "None" THEN a
                ELSE IF node.args = <<>> THEN Raise("TypeError")
                ELSE LET b == Evaluate(node.args[1])
                     IN  IF b.err # "None" THEN b ELSE Raise("TypeError")

\* eval(expression, ...): SyntaxError before anything is evaluated.
Eval(s) ==
    LET e == ParseExpression(s)
    IN  IF e.ok THEN Evaluate(e.node) ELSE Raise("SyntaxError")

(***************************************************************************)
(* _safe_eval, lines 355-362: the value as a float, or CalculatorError     *)
(* raised from whatever the try block raised, the CalculatorError of       *)
(* line 359 included.                                                      *)
(***************************************************************************)
_safe_eval(s) ==
    LET r == Eval(s)
    IN  IF r.err = "Unmodelled" THEN [raised |-> Uncaught("Unmodelled"), v |-> NoValue]
        ELSE IF r.err # "None"
        THEN [raised |-> CalculatorError("Evaluation error", r.err), v |-> NoValue]
        ELSE IF ~IsNumber(r.v)
        THEN [raised |-> CalculatorError("Evaluation error", "CalculatorError"),
              v |-> NoValue]
        ELSE [raised |-> NoError, v |-> ToFloat(r.v)]

-----------------------------------------------------------------------------
(***************************************************************************)
(* The operations.  Each is a function of the buffer and the display to    *)
(* the outcomes of the call: the buffer and the display after it and the   *)
(* exception it raised.                                                    *)
(***************************************************************************)

\* _press with the comparison of line 283 written > instead of >=.
PressPastLimit(expr, eqn, value) ==
    IF Len(expr) > MAX_EXPRESSION_LENGTH
    THEN Outcome(expr, eqn, CalculatorError("Expression too long", "None"))
    ELSE Outcome(expr \o <<value>>, expr \o <<value>>, NoError)

\* _press, lines 283-288
_press(expr, eqn, value) ==
    IF Len(expr) >= MAX_EXPRESSION_LENGTH
    THEN Outcome(expr, eqn, CalculatorError("Expression too long", "None"))
    ELSE Outcome(expr \o <<value>>, expr \o <<value>>, NoError)

\* _handle_backspace, lines 138-140
_handle_backspace(expr, eqn) ==
    IF expr # <<>>
    THEN LET cut == Take(expr, Len(expr) - 1)
         IN  Outcome(cut, IF cut # <<>> THEN cut ELSE <<"0">>, NoError)
    ELSE Outcome(expr, eqn, NoError)

\* _clear with the buffer set to "0", as the display is, instead of "".
ClearToZero(expr, eqn) == Outcome(<<"0">>, <<"0">>, NoError)

\* _clear, lines 292-293
_clear(expr, eqn) == Outcome(<<>>, <<"0">>, NoError)

\* _toggle_sign without the test of line 389: the sign is always prepended.
ToggleSignPrepends(expr, eqn) ==
    IF expr = <<>> THEN Outcome(expr, eqn, NoError)
    ELSE Outcome(<<"-">> \o expr, <<"-">> \o expr, NoError)

\* _toggle_sign, lines 386-394
_toggle_sign(expr, eqn) ==
    IF expr = <<>> THEN Outcome(expr, eqn, NoError)
    ELSE LET toggled == IF expr[1] = "-" THEN Tail(expr) ELSE <<"-">> \o expr
         IN  Outcome(toggled, toggled, NoError)

(***************************************************************************)
(* _calculate with line 308 assigning the normalized text to the buffer    *)
(* (self.expression = self.expression.replace(...)) instead of to a local. *)
(***************************************************************************)
CalculateNormalizesBuffer(expr, eqn) ==
    IF expr = <<>>
    THEN {Outcome(expr, eqn, CalculatorError("No expression to calculate", "None"))}
    ELSE IF ~_validate_expression(Normalize(expr))
    THEN {Outcome(Normalize(expr), eqn,
                  CalculatorError("Invalid expression format", "None"))}
    ELSE UNION {
        IF result.raised # NoError
        THEN {Outcome(Normalize(expr), eqn, result.raised)}
        ELSE {IF formatted.raised # NoError
              THEN Outcome(Normalize(expr), eqn, formatted.raised)
              ELSE Outcome(formatted.str, formatted.str, NoError) :
                 formatted \in _format_result(result.v)} :
        result \in {_safe_eval(Normalize(expr))}}

(***************************************************************************)
(* _calculate, lines 303-326.  The except clause of line 324 catches       *)
(* ValueError, ZeroDivisionError and SyntaxError; _safe_eval raises none   *)
(* of them (it wraps every exception in CalculatorError), and the          *)
(* OverflowError of _format_result is none of them: it leaves _calculate   *)
(* as it is, before the display and the buffer are assigned.               *)
(***************************************************************************)
_calculate(expr, eqn) ==
    IF expr = <<>>
    THEN {Outcome(expr, eqn, CalculatorError("No expression to calculate", "None"))}
    ELSE IF ~_validate_expression(Normalize(expr))
    THEN {Outcome(expr, eqn, CalculatorError("Invalid expression format", "None"))}
    ELSE UNION {
        IF result.raised # NoError THEN {Outcome(expr, eqn, result.raised)}
        ELSE {IF formatted.raised # NoError
              THEN Outcome(expr, eqn, formatted.raised)
              ELSE Outcome(formatted.str, formatted.str, NoError) :
                 formatted \in _format_result(result.v)} :
        result \in {_safe_eval(Normalize(expr))}}

\* _percentage, lines 399-412: the except clause catches ValueError alone.
_percentage(expr, eqn) ==
    IF expr = <<>>
    THEN {Outcome(expr, eqn, CalculatorError("No value to convert", "None"))}
    ELSE UNION {
        IF ~parsed.ok
        THEN {Outcome(expr, eqn,
                      CalculatorError("Invalid value for percentage", "ValueError"))}
        ELSE {IF formatted.raised # NoError
              THEN Outcome(expr, eqn, formatted.raised)
              ELSE Outcome(formatted.str, formatted.str, NoError) :
                 formatted \in _format_result(DivideBy100(parsed.v))} :
        parsed \in {PyFloat(expr)}}

-----------------------------------------------------------------------------
(* The state machine: one action for each operation of the engine.         *)

Called(name, arg, outcomes) ==
    \E r \in outcomes :
        /\ expression' = r.expression
        /\ equation' = r.equation
        /\ raised' = r.raised
        /\ op' = [name |-> name, arg |-> arg]

Init ==
    /\ expression = <<>>
    /\ equation = <<>>
    /\ op = [name |-> "__init__", arg |-> ""]
    /\ raised = NoError

Press ==
    \E value \in Tokens \cup PadTokens :
        /\ value \in PadTokens \/ Len(expression) < MaxFree
        /\ Called("_press", value, {_press(expression, equation, value)})

Backspace ==
    Called("_handle_backspace", "", {_handle_backspace(expression, equation)})

Clear == Called("_clear", "", {_clear(expression, equation)})

ToggleSign == Called("_toggle_sign", "", {_toggle_sign(expression, equation)})

\* The outcomes the model computes; a call with none is not followed.
Modelled(outcomes) == {r \in outcomes : r.raised.type # "Unmodelled"}

Calculate ==
    Called("_calculate", "", Modelled(_calculate(expression, equation)))

Percentage ==
    Called("_percentage", "", Modelled(_percentage(expression, equation)))

Next == Press \/ Backspace \/ Clear \/ ToggleSign \/ Calculate \/ Percentage

Spec == Init /\ [][Next]_vars

-----------------------------------------------------------------------------
(***************************************************************************)
(* The UI layer: the handlers the buttons and the keys are bound to.       *)
(* SpecUI drives the engine through them alone.                            *)
(***************************************************************************)
PLUS_MINUS == "±"
ERROR == <<"E", "r", "r", "o", "r">>

\* The characters of the string that line 126 searches for event.char.
KEYPRESS_CHARS ==
    {"0", "1", "2", "3", "4", "5", "6", "7", "8", "9", ".", "+", "-", "*", "/", "%"}

\* The buttons and the characters of the keys that the exploration uses.
\* NoChar is event.char of a key that types nothing (Shift, an arrow).
NoChar == ""
Buttons == {"C", "=", PLUS_MINUS, "%", "5", "0", DIVIDE, "."}
KeyChars == {"5", "/", "%", ".", "a", NoChar}

(***************************************************************************)
(* _button_click, lines 255-271: the operation the value selects, and      *)
(* "Error" on the display for a CalculatorError (line 266) and for any     *)
(* other exception (line 269); nothing is raised to the caller.            *)
(***************************************************************************)
_button_click(expr, eqn, value) ==
    UNION {
        {IF r.raised # NoError THEN Outcome(r.expression, ERROR, NoError) ELSE r :
            r \in Modelled(called)} :
        called \in {CASE value = "C" -> {_clear(expr, eqn)}
                      [] value = "=" -> _calculate(expr, eqn)
                      [] value = PLUS_MINUS -> {_toggle_sign(expr, eqn)}
                      [] value = "%" -> _percentage(expr, eqn)
                      [] OTHER -> {_press(expr, eqn, value)}}}

(***************************************************************************)
(* _handle_keypress, lines 124-129.  The test of line 126 is a substring   *)
(* test, which the empty string passes; _press then appends nothing, and   *)
(* still checks the length and sets the display.  There is no try around   *)
(* the call of _press: what it raises leaves the handler.                  *)
(***************************************************************************)
_handle_keypress(expr, eqn, char) ==
    IF char = NoChar
    THEN IF Len(expr) >= MAX_EXPRESSION_LENGTH
         THEN Outcome(expr, eqn, CalculatorError("Expression too long", "None"))
         ELSE Outcome(expr, expr, NoError)
    ELSE IF char \in KEYPRESS_CHARS THEN _press(expr, eqn, char)
    ELSE Outcome(expr, eqn, NoError)

\* A character that goes to the buffer is one of the first MaxFree, or a pad.
Free(value) == value \in PadTokens \/ Len(expression) < MaxFree

\* A button of the pad, line 233.
Click ==
    \E value \in Buttons :
        /\ value \in {"C", "=", PLUS_MINUS, "%"} \/ Free(value)
        /\ Called("_button_click", value, _button_click(expression, equation, value))

\* The key Return, line 110.
KeyReturn == Called("_button_click", "=", _button_click(expression, equation, "="))

\* Any other key, line 109.
KeyPress ==
    \E char \in KeyChars :
        /\ char \notin KEYPRESS_CHARS \/ Free(char)
        /\ Called("_handle_keypress", char,
                  {_handle_keypress(expression, equation, char)})

\* The keys BackSpace (line 111) and Escape (line 112) call the engine.
NextUI == Click \/ KeyReturn \/ KeyPress \/ Backspace \/ Clear

SpecUI == Init /\ [][NextUI]_vars

(***************************************************************************)
(* SpecText: _calculate and _percentage on any text of TextChars, put in   *)
(* the buffer as _press puts it there.                                     *)
(***************************************************************************)
Texts == UNION {[1..n -> TextChars] : n \in 0..TextLen}

InitText ==
    /\ expression \in Texts
    /\ equation = expression
    /\ op = [name |-> "__init__", arg |-> ""]
    /\ raised = NoError

NextText == Calculate \/ Percentage

SpecText == InitText /\ [][NextText]_vars

(***************************************************************************)
(* SpecNumber: _calculate and _percentage on the texts of NumberChars,     *)
(* longer than those of SpecText: numbers small and large, written with    *)
(* and without an exponent.                                                *)
(***************************************************************************)
Numbers == UNION {[1..n -> NumberChars] : n \in 0..NumberLen}

InitNumber ==
    /\ expression \in Numbers
    /\ equation = expression
    /\ op = [name |-> "__init__", arg |-> ""]
    /\ raised = NoError

SpecNumber == InitNumber /\ [][NextText]_vars

-----------------------------------------------------------------------------
(***************************************************************************)
(* The properties.  A property of an operation is stated of every step:    *)
(* op' names the operation the step calls, the unprimed variables are the  *)
(* state before the call and the primed ones the state after it.           *)
(***************************************************************************)

(***************************************************************************)
(* The kind of a failure, as a caller can read it off the exception: its   *)
(* class, the head of its message and the class of its cause.              *)
(***************************************************************************)
Kind(exc) ==
    IF exc.type # "CalculatorError" THEN "Other"
    ELSE CASE exc.msg = "Expression too long" -> "TooLong"
           [] exc.msg \in {"No expression to calculate", "No value to convert"} ->
                "EmptyExpression"
           [] exc.msg = "Invalid expression format" -> "InvalidFormat"
           [] exc.msg = "Evaluation error" /\ exc.cause = "ZeroDivisionError" ->
                "DivisionByZero"
           [] exc.msg = "Evaluation error" /\ exc.cause # "ZeroDivisionError" ->
                "MalformedExpression"
           [] exc.msg = "Invalid value for percentage" -> "InvalidOperand"
           [] OTHER -> "Other"

\* The character class of the validator, as section 4.2 words it.
AllowedChars == AsciiDigits \cup {"+", "-", "*", "/", ".", "(", ")", " "}

OnlyAllowedChars(s) ==
    s # <<>> /\ \A i \in 1..Len(s) : Normalize(s)[i] \in AllowedChars

\* The strings that format the value v.
Formatted(v) == {f.str : f \in {g \in _format_result(v) : g.raised = NoError}}

\* C1: in every reachable state the buffer holds at most
\* MAX_EXPRESSION_LENGTH (20) characters.
C1_BufferBounded == Len(expression) <= MAX_EXPRESSION_LENGTH

\* C2: _press fails with "Expression too long" exactly when the buffer
\* already holds MAX_EXPRESSION_LENGTH or more characters, and then the
\* buffer is unchanged; otherwise the buffer after the call is the old
\* buffer followed by the token.
C2_AppendTooLong ==
    [][op'.name = "_press" =>
        IF Len(expression) >= MAX_EXPRESSION_LENGTH
        THEN Kind(raised') = "TooLong" /\ expression' = expression
        ELSE raised' = NoError /\ expression' = Append(expression, op'.arg)]_vars

\* A full buffer on which _press has just failed.
C2_FullBufferRefuses ==
    /\ op.name = "_press"
    /\ Kind(raised) = "TooLong"
    /\ Len(expression) = MAX_EXPRESSION_LENGTH

\* C3: whenever _calculate or _percentage fails, the buffer after the call
\* is the buffer before the call, display glyphs included.
C3_FailureKeepsBuffer ==
    [][(op'.name \in {"_calculate", "_percentage"} /\ raised' # NoError) =>
        expression' = expression]_vars

\* The buffer 5 DIVIDE 0 after _calculate has failed on it.
C3_DivisionByZeroKeeps ==
    /\ op.name = "_calculate"
    /\ Kind(raised) = "DivisionByZero"
    /\ expression = <<"5", DIVIDE, "0">>

(***************************************************************************)
(* The well-formed expressions of one decimal literal, or of two joined    *)
(* by an operator, and their values as exact fractions.                    *)
(***************************************************************************)
IsDigits(s) == s # <<>> /\ \A i \in 1..Len(s) : s[i] \in AsciiDigits

NatOf(s) == DigitsToNat(DigitsAt(s, 1, Len(s)))

\* The places k where s is literal, operator, literal.
OperatorPlaces(s) ==
    {k \in 2..(Len(s) - 1) :
        /\ s[k] \in {"+", "-", "*", "/", MULTIPLY, DIVIDE}
        /\ IsDigits(Take(s, k - 1))
        /\ IsDigits(Drop(s, k))
        /\ (s[k] \in {"/", DIVIDE} => NatOf(Drop(s, k)) # 0)}

ValueAt(s, k) ==
    LET a == NatOf(Take(s, k - 1))
        b == NatOf(Drop(s, k))
    IN  CASE s[k] = "+" -> Rat(FALSE, a + b, 1)
          [] s[k] = "-" -> Rat(FALSE, a - b, 1)
          [] s[k] \in {"*", MULTIPLY} -> Rat(FALSE, a * b, 1)
          [] s[k] \in {"/", DIVIDE} -> Rat(FALSE, a, b)

\* The step succeeds and leaves the formatted value v in the buffer.
Gives(v) == raised' = NoError /\ expression' \in Formatted(v)

\* C4: on a buffer that is a decimal literal, or two decimal literals
\* joined by one of + - * / or their glyphs (the simplest well-formed
\* expressions), _calculate succeeds and replaces the buffer with the
\* formatted string of the mathematically correct value.
C4_EvaluatesWellFormed ==
    [][op'.name = "_calculate" =>
        /\ IsDigits(expression) => Gives(Rat(FALSE, NatOf(expression), 1))
        /\ \A k \in OperatorPlaces(expression) : Gives(ValueAt(expression, k))]_vars

\* C5: every failure of an operation is reported as one of the six kinds,
\* the kind the situation calls for: TooLong from _press, EmptyExpression
\* on an empty buffer, InvalidFormat from _calculate on a buffer with a
\* character outside the class, DivisionByZero or MalformedExpression from
\* _calculate on the others (DivisionByZero on 5/0, MalformedExpression on
\* "(5"), InvalidOperand from _percentage.
C5_SixKinds ==
    [][raised' # NoError =>
        /\ Kind(raised') # "Other"
        /\ op'.name = "_press" => Kind(raised') = "TooLong"
        /\ (op'.name \in {"_calculate", "_percentage"} /\ expression = <<>>) =>
                Kind(raised') = "EmptyExpression"
        /\ (op'.name = "_percentage" /\ expression # <<>>) =>
                Kind(raised') = "InvalidOperand"
        /\ (op'.name = "_calculate" /\ expression # <<>>) =>
                IF ~OnlyAllowedChars(expression)
                THEN Kind(raised') = "InvalidFormat"
                ELSE /\ Kind(raised') \in {"DivisionByZero", "MalformedExpression"}
                     /\ expression \in {<<"5", "/", "0">>, <<"5", DIVIDE, "0">>} =>
                            Kind(raised') = "DivisionByZero"
                     /\ expression = <<"(", "5">> =>
                            Kind(raised') = "MalformedExpression"]_vars

\* The outcomes of appending the tokens o and d to the buffer s and of
\* calling _calculate then.
Chained(s, o, d) ==
    LET first == _press(s, s, o)
        second == _press(first.expression, first.equation, d)
    IN  _calculate(second.expression, second.equation)

\* The strings that format the number the string s writes, plus the digit d.
SumStrings(s, d) ==
    LET a == ToRat(PyFloat(s).v)
    IN  Formatted(Rat(FALSE, a.n + DigitValue(d) * a.d, a.d))

\* C6: after a successful _calculate the buffer is the formatted result,
\* which the display shows, and appends concatenate onto it so that a
\* second _calculate evaluates the chained expression (the result, then +,
\* then 5, gives their sum); a failed _calculate leaves the buffer as it
\* was.
C6_ResultChains ==
    [][op'.name = "_calculate" =>
        IF raised' = NoError
        THEN /\ expression' = equation'
             /\ expression' \in Formatted(PyFloat(expression').v)
             /\ Len(expression') + 2 <= MAX_EXPRESSION_LENGTH =>
                    \A r \in Chained(expression', "+", "5") :
                        /\ r.raised = NoError
                        /\ r.expression \in SumStrings(expression', "5")
        ELSE expression' = expression]_vars

\* A string of digits with at most one point among them.
IsMantissa(s) ==
    /\ \E i \in 1..Len(s) : s[i] \in AsciiDigits
    /\ \A i \in 1..Len(s) : s[i] \in AsciiDigits \cup {"."}
    /\ Cardinality({i \in 1..Len(s) : s[i] = "."}) <= 1

Unsigned(s) == IF s # <<>> /\ s[1] \in {"+", "-"} THEN Tail(s) ELSE s

\* A bare number: a mantissa with an optional sign.
IsBareNumber(s) == IsMantissa(Unsigned(s))

\* A numeric literal: a bare number, with an optional exponent.
IsNumericLiteral(s) ==
    \/ IsBareNumber(s)
    \/ \E i \in 1..Len(s) :
        /\ s[i] \in {"e", "E"}
        /\ IsBareNumber(Take(s, i - 1))
        /\ IsDigits(Unsigned(Drop(s, i)))

\* C7: _toggle_sign leaves an empty buffer alone, removes the first
\* character when it is "-", and otherwise prepends "-" to the buffer;
\* applied twice to a buffer that holds a bare number it gives the buffer
\* back.
C7_ToggleSign ==
    [][op'.name = "_toggle_sign" =>
        /\ raised' = NoError
        /\ expression = <<>> => expression' = <<>>
        /\ (expression # <<>> /\ expression[1] = "-") =>
                expression' = Tail(expression)
        /\ (expression # <<>> /\ expression[1] # "-") =>
                expression' = <<"-">> \o expression
        /\ IsBareNumber(expression) =>
                _toggle_sign(expression', equation').expression = expression]_vars

\* The buffer 5+3 after _toggle_sign.
C7_TogglesExpression ==
    /\ op.name = "_toggle_sign"
    /\ expression = <<"-", "5", "+", "3">>

\* C8: _percentage succeeds exactly on a buffer that is one numeric
\* literal, and replaces it with the formatted value of the literal
\* divided by 100 ("50" gives "0.5"); on an empty buffer it fails with
\* EmptyExpression and on any other buffer with InvalidOperand, and the
\* buffer is unchanged.
C8_Percentage ==
    [][op'.name = "_percentage" =>
        /\ expression = <<>> =>
                Kind(raised') = "EmptyExpression" /\ expression' = expression
        /\ (expression # <<>> /\ ~IsNumericLiteral(expression)) =>
                Kind(raised') = "InvalidOperand" /\ expression' = expression
        /\ IsNumericLiteral(expression) =>
                /\ raised' = NoError
                /\ expression' \in Formatted(DivideBy100(PyFloat(expression).v))
        /\ expression = <<"5", "0">> => expression' = <<"0", ".", "5">>]_vars

\* C9: from every state, the state after a failed operation included,
\* _clear succeeds and leaves the buffer empty and the display "0", and a
\* _press that follows it succeeds and leaves its token alone in the
\* buffer.
C9_ClearRecovers ==
    [][/\ op'.name = "_clear" =>
            raised' = NoError /\ expression' = <<>> /\ equation' = <<"0">>
       /\ (op.name = "_clear" /\ op'.name = "_press") =>
            raised' = NoError /\ expression' = <<op'.arg>>]_vars

\* The state _clear leaves.
C9_Cleared ==
    /\ op.name = "_clear"
    /\ raised = NoError
    /\ expression = <<>>
    /\ equation = <<"0">>

\* C10: the validator, on the buffer with its glyphs mapped, accepts
\* exactly the texts that are not empty and hold only digits 0-9,
\* + - * /, the point, the parentheses and the space; _calculate fails
\* with InvalidFormat on every other text that is not empty, and on no
\* text of these.
C10_ValidatorClass ==
    [][op'.name = "_calculate" =>
        /\ _validate_expression(Normalize(expression))
                <=> OnlyAllowedChars(expression)
        /\ expression # <<>> =>
                (Kind(raised') = "InvalidFormat" <=> ~OnlyAllowedChars(expression))]_vars

(***************************************************************************)
(* The arithmetic grammar of section 4.3: numeric literals, the binary     *)
(* operators + - * /, unary minus at the start, after an open parenthesis  *)
(* or after an operator, and balanced parentheses.  A rule gives the       *)
(* places of the text where a phrase that starts at place i can end;       *)
(* spaces may stand between the tokens.                                    *)
(***************************************************************************)
RECURSIVE SkipSpaces(_, _)
SkipSpaces(s, i) ==
    IF i <= Len(s) /\ s[i] = " " THEN SkipSpaces(s, i + 1) ELSE i

LiteralEnds(s, i) ==
    {SkipSpaces(s, j) : j \in {k \in (i + 1)..(Len(s) + 1) :
                                    IsMantissa(SubSeq(s, i, k - 1))}}

RECURSIVE GrammarEnds(_, _, _)
GrammarEnds(rule, s, at) ==
    LET i == SkipSpaces(s, at)
    IN  CASE rule = "operand" ->
                 IF i > Len(s) THEN {}
                 ELSE IF s[i] = "-" THEN GrammarEnds("operand", s, i + 1)
                 ELSE IF s[i] = "("
                 THEN {SkipSpaces(s, j + 1) :
                          j \in {k \in GrammarEnds("expression", s, i + 1) :
                                    k <= Len(s) /\ s[k] = ")"}}
                 ELSE LiteralEnds(s, i)
          [] rule = "expression" ->
                 LET first == GrammarEnds("operand", s, i)
                 IN  first \cup
                     UNION {GrammarEnds("expression", s, j + 1) :
                               j \in {k \in first :
                                         k <= Len(s) /\ s[k] \in {"+", "-", "*", "/"}}}

InGrammar(s) == (Len(s) + 1) \in GrammarEnds("expression", s, 1)

\* C11: _calculate on a buffer that passes the validator and is not an
\* expression of the arithmetic grammar fails with MalformedExpression and
\* leaves the buffer as it was; it never puts a number in the buffer.
C11_MalformedFails ==
    [][(/\ op'.name = "_calculate"
        /\ _validate_expression(Normalize(expression))
        /\ ~InGrammar(Normalize(expression))) =>
            /\ Kind(raised') = "MalformedExpression"
            /\ expression' = expression]_vars

\* What the display shows after an operation that succeeded: the buffer
\* the operation left, "0" for a buffer it emptied, or what it showed
\* before if the operation had nothing to do.
ShowsResult ==
    \/ equation' = expression'
    \/ expression' = <<>> /\ equation' = <<"0">>
    \/ expression' = expression /\ equation' = equation

\* What the display shows after an operation that failed.
ShowsError == equation' = ERROR /\ expression' = expression

\* C12: every operation that a button or a key triggers either succeeds,
\* and the display shows the string it produced, or fails, and the display
\* shows "Error" while the buffer keeps its value (so for = and % on an
\* empty buffer and for a character on a full one); no exception leaves
\* the handler.
C12_HandlersShowError ==
    [][/\ raised' = NoError
       /\ ShowsResult \/ ShowsError
       /\ (op'.name = "_button_click" /\ op'.arg \in {"=", "%"} /\ expression = <<>>) =>
                ShowsError
       /\ (/\ op'.name \in {"_button_click", "_handle_keypress"}
           /\ op'.arg \in KEYPRESS_CHARS \ {"%"}
           /\ Len(expression) >= MAX_EXPRESSION_LENGTH) => ShowsError]_vars

=============================================================================
